---- MODULE Spec2Model ----
(***************************************************************************)
(* Model of ioh::problem::Problem<T> (the generic evaluation pipeline),    *)
(* WrappedProblem<T>, RealProblem and IntegerProblem, together with the    *)
(* calls the problem makes on its attached logger.                         *)
(*                                                                         *)
(* A double is modelled by an integer; NaN, Infinity and -Infinity are     *)
(* integer codes outside the range of the finite values that occur.       *)
(***************************************************************************)
EXTENDS Integers, Sequences, FiniteSets, TLC

\* ------------------------------------------------------------------ bounds
\* n_variables of the problem under study
NVars == 2
\* the n_objectives a problem is constructed with
ObjectiveCounts == {1, 2}
\* valid evaluations between two resets
MaxEvals == 2

\* ------------------------------------------------- values of type double
Infinity == 1000
NaN == 2000
NegInfinity == 0 - Infinity

IsNaN(v) == v = NaN
IsInf(v) == v = Infinity \/ v = NegInfinity
IsFinite(v) == ~IsNaN(v) /\ ~IsInf(v)

\* a < b on doubles: every comparison with NaN is false
LessThan(a, b) == ~IsNaN(a) /\ ~IsNaN(b) /\ a < b

\* -a on doubles
Negate(v) == IF IsNaN(v) THEN NaN ELSE 0 - v

\* std::numeric_limits<T>::signaling_NaN(): NaN for double, T() = 0 for int
signaling_NaN(T) == IF T = "double" THEN NaN ELSE 0

\* std::vector<V>(n, v)
Filled(n, v) == [i \in 1..n |-> v]

\* ------------------------------------------------------------- loggers
Loggers == {"A", "B"}
nullptr == "nullptr"

\* ------------------------------------------------------------- the state
VARIABLES
    problem_type,     \* concrete class of the problem
    variables_hook,   \* which transform_variables override the class has
    objectives_hook,  \* which transform_objectives override the class has
    function_,        \* which benchmark formula evaluate() forwards to
    meta_data_,       \* MetaData
    objective_,       \* target Solution
    state_,           \* State<T>
    logger_,          \* logger::Base *
    calls,            \* the logger calls made by the last operation, in order
    op,               \* the last operation: name, arguments, result
    history,          \* (x, y) of the valid evaluations since the last reset
    constraint_,      \* Constraint<T>
    registry_,        \* the factories: per family, the type each key creates
    factory_op,       \* the last registration or lookup and its outcome
    comparison,       \* the last call of compare_objectives and its result
    observer          \* per logger: what it has received of the protocol so far

vars == <<problem_type, variables_hook, objectives_hook, function_, meta_data_,
          objective_, state_, logger_, calls, op, history, constraint_,
          registry_, factory_op, comparison, observer>>

\* what no operation of a constructed problem changes
config == <<problem_type, variables_hook, objectives_hook, function_, meta_data_,
            objective_, constraint_, registry_, factory_op, comparison>>

ProblemTypes == {"WrappedProblem<double>", "WrappedProblem<int>",
                 "RealProblem", "IntegerProblem"}

\* the template argument T of Problem<T>
ValueType(pt) == IF pt \in {"WrappedProblem<double>", "RealProblem"}
                 THEN "double" ELSE "int"

IsWrapped(pt) == pt \in {"WrappedProblem<double>", "WrappedProblem<int>"}

\* ---------------------------------------------------- compare_objectives
\* a comparison that also accepts equal values
compare_objectives_non_strict(a, b, optimization_type) ==
    IF optimization_type = "Maximization" THEN ~LessThan(a, b) ELSE ~LessThan(b, a)

compare_objectives(a, b, optimization_type) ==
    IF optimization_type = "Maximization" THEN LessThan(b, a) ELSE LessThan(a, b)

\* --------------------------------------------------------------- MetaData
MetaData(problem_id, name, n_variables, n_objectives, optimization_type) ==
    [problem_id |-> problem_id, name |-> name,
     n_variables |-> n_variables, n_objectives |-> n_objectives,
     optimization_type |-> optimization_type,
     initial_objective_value |->
         IF optimization_type = "Minimization" THEN Infinity ELSE NegInfinity]

\* --------------------------------------------------------------- State<T>
Solution(x, y) == [x |-> x, y |-> y]

State(initial) ==
    [evaluations |-> 0,
     current |-> initial, current_internal |-> initial,
     current_best |-> initial, current_best_internal |-> initial]

\* State::update(meta_data, objective)
update(st, md) ==
    LET counted == [st EXCEPT !.evaluations = @ + 1] IN
    IF compare_objectives(st.current.y[1], st.current_best.y[1], md.optimization_type)
    THEN [counted EXCEPT !.current_best = st.current,
                         !.current_best_internal = st.current_internal]
    ELSE counted

\* the constructor seeding State with the value of the default target
InitialSolution_target(md, T) ==
    Solution(Filled(md.n_variables, signaling_NaN(T)),
             Filled(md.n_objectives,
                    IF md.optimization_type = "Minimization"
                    THEN NegInfinity ELSE Infinity))

\* the Solution the constructor hands to State
InitialSolution(md, T) ==
    Solution(Filled(md.n_variables, signaling_NaN(T)),
             Filled(md.n_objectives, md.initial_objective_value))

\* State::reset()
state_reset(md, T) == State(InitialSolution(md, T))

\* ------------------------------------------------ benchmark formulas
Functions == {"ones", "weights"}

RECURSIVE SumTo(_, _)
SumTo(g, n) == IF n = 0 THEN 0 ELSE g[n] + SumTo(g, n - 1)

\* the scalar the formula computes; it only tests components against 1
Scalar(fn, x) ==
    IF fn = "ones"
    THEN SumTo([i \in 1..Len(x) |-> IF x[i] = 1 THEN 1 ELSE 0], Len(x))
    ELSE SumTo([i \in 1..Len(x) |-> IF x[i] = 1 THEN i ELSE 0], Len(x))

\* Function<T>: the objective vector of the formula
Apply(fn, n_objectives, x) == [j \in 1..n_objectives |-> Scalar(fn, x) + (j - 1)]

\* ------------------------------------------------ hooks of Problem<T>
VariablesHooks == {"identity", "flip"}
ObjectivesHooks == {"identity", "negate", "square"}

transform_variables(x) ==
    IF variables_hook = "identity" THEN x
    ELSE [i \in 1..Len(x) |-> IF IsFinite(x[i]) THEN 1 - x[i] ELSE x[i]]

transform_objectives(y) ==
    CASE objectives_hook = "identity" -> y
      [] objectives_hook = "negate" -> [j \in 1..Len(y) |-> Negate(y[j])]
      [] OTHER -> [j \in 1..Len(y) |->
                     IF IsFinite(y[j]) THEN (y[j] - 1) * (y[j] - 1) ELSE y[j]]

evaluate(x) == Apply(function_, meta_data_.n_objectives, x)

\* ------------------------------------------------ input validation
all_finite(x) == \A i \in 1..Len(x) : IsFinite(x[i])
has_nan(x) == \E i \in 1..Len(x) : IsNaN(x[i])
has_inf(x) == \E i \in 1..Len(x) : IsInf(x[i])

\* the warning check_input_dimensions logs, "" when it returns true
dimensions_warning(x) ==
    IF Len(x) = 0 THEN "The solution is empty."
    ELSE IF Len(x) # meta_data_.n_variables
         THEN "The dimension of solution is incorrect."
         ELSE ""

\* check_input_dimensions without its size test
check_input_dimensions_no_size(x) == Len(x) # 0

check_input_dimensions(x) == dimensions_warning(x) = ""

\* the warning check_input logs, "" when it returns true
input_warning(x) ==
    IF ~check_input_dimensions(x) THEN dimensions_warning(x)
    ELSE IF problem_type # "RealProblem" THEN ""
    ELSE IF all_finite(x) THEN ""
    ELSE IF has_nan(x) THEN "The solution contains NaN."
    ELSE IF has_inf(x) THEN "The solution contains Inf."
    ELSE "The solution contains invalid values."

check_input(x) == input_warning(x) = ""

\* ------------------------------------------------ logger calls
LoggerCall(l, method, arg) == [logger |-> l, method |-> method, arg |-> arg]

NoArg == "-"

\* Problem::log_info() on state st
log_info(st) ==
    <<st.evaluations,
      st.current_best_internal.y[1],
      st.current.y[1],
      st.current_best.y[1],
      <<st.current.x, st.current.y>>,
      <<objective_.x, objective_.y>> >>

\* ------------------------------------------------ operations
\* what the operation found: the attached logger, the evaluation count, and
\* whether the problem had just been constructed
Before == [logger |-> logger_, evaluations |-> state_.evaluations,
           constructed |-> op.name = "construct"]

Operation(name, l, x, valid, warning, ret) ==
    [name |-> name, logger |-> l, x |-> x, valid |-> valid,
     warning |-> warning, ret |-> ret, before |-> Before]

\* the problem exists: its constructor did not throw
Alive == op.name # "construct" \/ op.valid

\* the decision vectors a caller passes: all zeros, all ones, a single one in
\* the first or in the second place; vectors of a wrong length; and, for
\* double, vectors that hold a NaN or an infinity
Bits == {0, 1}
NonFinite == {NaN, Infinity, NegInfinity}
Unit(n, k) == [i \in 1..n |-> IF i = k THEN 1 ELSE 0]
Inputs(T) ==
    {Filled(NVars, b) : b \in Bits}
    \cup {Unit(NVars, k) : k \in 1..2}
    \cup {<<>>, Filled(NVars - 1, 1)}
    \cup {Filled(NVars + 1, b) : b \in Bits}
    \cup (IF T = "double"
          THEN {[i \in 1..NVars |-> IF i = 1 THEN v ELSE 1] : v \in {NaN, Infinity}}
               \cup {[i \in 1..NVars |-> IF i = 1 THEN NaN ELSE Infinity]}
          ELSE {})

\* ------------------------------------------------ Constraint<T>
\* Constraint<T>() declares no size; a constraint built from bounds declares one
Constraint(sized, size) == [sized |-> sized, size |-> size]

\* the constraints a problem is constructed with: WrappedProblem takes the
\* default one, the other classes pass bound vectors
ConstraintsOf(pt) ==
    IF IsWrapped(pt) THEN {Constraint(FALSE, 0)}
    ELSE {Constraint(TRUE, n) : n \in {NVars - 1, NVars, NVars + 1}}

\* Constraint::check_size(s): the error it raises, "" when the size fits
check_size(c, s) ==
    IF c.sized /\ c.size # s THEN "Bound dimension is wrong" ELSE ""

\* a constructor that never looks at the constraint
construction_error_unchecked(md, c) == ""

\* Problem::Problem: the error that leaves the constructor, "" when none does
construction_error(md, c) == check_size(c, md.n_variables)

\* ------------------------------------------------ factory and comparison at rest
Families == {"Real", "Integer"}
Ids == {1, 15}
Names == {"LeadingOnesRuggedness1", "Sphere"}
NoType == "-"
EmptyRegistry ==
    [f \in Families |-> [ids |-> [i \in Ids |-> NoType],
                         names |-> [n \in Names |-> NoType]]]
NoFactoryOp == [name |-> "none"]
NoComparison == [name |-> "none"]

\* a logger that no problem has called yet
Unobserved == [l \in Loggers |-> [phase |-> "idle", logs |-> 0, base |-> 0]]

\* the default target with the two infinities exchanged
DefaultObjective_exchanged(md, T) ==
    Solution(Filled(md.n_variables, signaling_NaN(T)),
             Filled(md.n_objectives,
                    IF md.optimization_type = "Minimization"
                    THEN Infinity ELSE NegInfinity))

\* Problem(MetaData, Constraint): the default target Solution
DefaultObjective(md, T) ==
    Solution(Filled(md.n_variables, signaling_NaN(T)),
             Filled(md.n_objectives,
                    IF md.optimization_type = "Minimization"
                    THEN NegInfinity ELSE Infinity))

Init ==
    /\ problem_type \in ProblemTypes
    /\ variables_hook \in (IF IsWrapped(problem_type) THEN {"identity"} ELSE VariablesHooks)
    /\ objectives_hook \in (IF IsWrapped(problem_type) THEN {"identity"} ELSE ObjectivesHooks)
    /\ function_ \in Functions
    /\ \E n_objectives \in ObjectiveCounts,
          optimization_type \in {"Minimization", "Maximization"} :
          meta_data_ = MetaData(0, problem_type, NVars, n_objectives, optimization_type)
    /\ objective_ = DefaultObjective(meta_data_, ValueType(problem_type))
    /\ state_ = State(InitialSolution(meta_data_, ValueType(problem_type)))
    /\ logger_ = nullptr
    /\ calls = <<>>
    /\ constraint_ \in ConstraintsOf(problem_type)
    /\ op = [name |-> "construct", logger |-> nullptr, x |-> <<>>,
             valid |-> construction_error(meta_data_, constraint_) = "",
             warning |-> construction_error(meta_data_, constraint_), ret |-> <<>>,
             before |-> [logger |-> nullptr, evaluations |-> 0, constructed |-> FALSE]]
    /\ history = <<>>
    /\ registry_ = EmptyRegistry
    /\ factory_op = NoFactoryOp
    /\ comparison = NoComparison
    /\ observer = Unobserved

\* reset that forgets to tell the attached logger
reset_untracked ==
    /\ Alive
    /\ state_' = state_reset(meta_data_, ValueType(problem_type))
    /\ calls' = <<>>
    /\ op' = Operation("reset", nullptr, <<>>, TRUE, "", <<>>)
    /\ history' = <<>>
    /\ UNCHANGED <<config, logger_>>

\* reset that wipes State only when a logger is attached
reset_guarded ==
    /\ Alive
    /\ state_' = IF logger_ # nullptr
                 THEN state_reset(meta_data_, ValueType(problem_type))
                 ELSE state_
    /\ calls' = IF logger_ # nullptr
                THEN <<LoggerCall(logger_, "track_problem", meta_data_)>>
                ELSE <<>>
    /\ op' = Operation("reset", nullptr, <<>>, TRUE, "", <<>>)
    /\ history' = <<>>
    /\ UNCHANGED <<config, logger_>>

\* Problem::reset()
reset ==
    /\ Alive
    /\ state_' = state_reset(meta_data_, ValueType(problem_type))
    /\ calls' = IF logger_ # nullptr
                THEN <<LoggerCall(logger_, "track_problem", meta_data_)>>
                ELSE <<>>
    /\ op' = Operation("reset", nullptr, <<>>, TRUE, "", <<>>)
    /\ history' = <<>>
    /\ UNCHANGED <<config, logger_>>

\* attach_logger that flushes the logger it replaces
attach_logger_flushing(l) ==
    /\ Alive
    /\ logger_' = l
    /\ calls' = (IF logger_ # nullptr
                 THEN <<LoggerCall(logger_, "flush", NoArg)>>
                 ELSE <<>>) \o <<LoggerCall(l, "track_problem", meta_data_)>>
    /\ op' = Operation("attach_logger", l, <<>>, TRUE, "", <<>>)
    /\ UNCHANGED <<config, state_, history>>

\* attach_logger that stores the pointer and tells the logger nothing
attach_logger_untracked(l) ==
    /\ Alive
    /\ logger_' = l
    /\ calls' = <<>>
    /\ op' = Operation("attach_logger", l, <<>>, TRUE, "", <<>>)
    /\ UNCHANGED <<config, state_, history>>

\* Problem::attach_logger(logger)
attach_logger(l) ==
    /\ Alive
    /\ logger_' = l
    /\ calls' = <<LoggerCall(l, "track_problem", meta_data_)>>
    /\ op' = Operation("attach_logger", l, <<>>, TRUE, "", <<>>)
    /\ UNCHANGED <<config, state_, history>>

\* detach_logger that flushes but keeps the pointer
detach_logger_keeping ==
    /\ Alive
    /\ calls' = IF logger_ # nullptr
                THEN <<LoggerCall(logger_, "flush", NoArg)>>
                ELSE <<>>
    /\ op' = Operation("detach_logger", nullptr, <<>>, TRUE, "", <<>>)
    /\ UNCHANGED <<config, state_, logger_, history>>

\* Problem::detach_logger()
detach_logger ==
    /\ Alive
    /\ calls' = IF logger_ # nullptr
                THEN <<LoggerCall(logger_, "flush", NoArg)>>
                ELSE <<>>
    /\ logger_' = nullptr
    /\ op' = Operation("detach_logger", nullptr, <<>>, TRUE, "", <<>>)
    /\ UNCHANGED <<config, state_, history>>

\* the pipeline with State::update called before current.y is assigned
pipeline_early_update(x) ==
    LET s1 == [state_ EXCEPT !.current.x = x]
        s2 == [s1 EXCEPT !.current_internal.x = transform_variables(x)]
        s3 == [s2 EXCEPT !.current_internal.y = evaluate(s2.current_internal.x)]
        s4 == update(s3, meta_data_)
    IN  [s4 EXCEPT !.current.y = transform_objectives(s3.current_internal.y)]

\* the pipeline with evaluate called before current_internal.x is assigned
pipeline_stale_internal(x) ==
    LET s1 == [state_ EXCEPT !.current.x = x]
        s2 == [s1 EXCEPT !.current_internal.y = evaluate(s1.current_internal.x)]
        s3 == [s2 EXCEPT !.current_internal.x = transform_variables(x)]
        s4 == [s3 EXCEPT !.current.y = transform_objectives(s3.current_internal.y)]
    IN  update(s4, meta_data_)

\* the pipeline that keeps the caller's x as the internal decision vector
pipeline_raw_internal(x) ==
    LET s1 == [state_ EXCEPT !.current.x = x]
        s2 == [s1 EXCEPT !.current_internal.x = x]
        s3 == [s2 EXCEPT !.current_internal.y = evaluate(s2.current_internal.x)]
        s4 == [s3 EXCEPT !.current.y = transform_objectives(s3.current_internal.y)]
    IN  update(s4, meta_data_)

\* the pipeline that applies transform_objectives twice
pipeline_twice_objectives(x) ==
    LET s1 == [state_ EXCEPT !.current.x = x]
        s2 == [s1 EXCEPT !.current_internal.x = transform_variables(x)]
        s3 == [s2 EXCEPT !.current_internal.y = evaluate(s2.current_internal.x)]
        s4 == [s3 EXCEPT !.current.y =
                   transform_objectives(transform_objectives(s3.current_internal.y))]
    IN  update(s4, meta_data_)

\* Problem::operator(): the state after the pipeline ran on a validated x
pipeline(x) ==
    LET s1 == [state_ EXCEPT !.current.x = x]
        s2 == [s1 EXCEPT !.current_internal.x = transform_variables(x)]
        s3 == [s2 EXCEPT !.current_internal.y = evaluate(s2.current_internal.x)]
        s4 == [s3 EXCEPT !.current.y = transform_objectives(s3.current_internal.y)]
    IN  update(s4, meta_data_)

\* Problem::operator(): the value returned when check_input fails
soft_failure ==
    Filled(meta_data_.n_objectives, signaling_NaN(ValueType(problem_type)))

\* operator() that counts the call before it validates the input
operator_call_invalid_counted(x) ==
    /\ Alive
    /\ ~check_input(x)
    /\ state_.evaluations < MaxEvals
    /\ op' = Operation("evaluate", nullptr, x, FALSE, input_warning(x), soft_failure)
    /\ calls' = <<>>
    /\ state_' = [state_ EXCEPT !.evaluations = @ + 1]
    /\ UNCHANGED <<config, logger_, history>>

\* Problem::operator()(x), input rejected
operator_call_invalid(x) ==
    /\ Alive
    /\ ~check_input(x)
    /\ op' = Operation("evaluate", nullptr, x, FALSE, input_warning(x), soft_failure)
    /\ calls' = <<>>
    /\ UNCHANGED <<config, state_, logger_, history>>

\* operator() that notifies the logger before it runs the pipeline
operator_call_valid_log_before(x) ==
    /\ Alive
    /\ check_input(x)
    /\ state_.evaluations < MaxEvals
    /\ state_' = pipeline(x)
    /\ calls' = IF logger_ # nullptr
                THEN <<LoggerCall(logger_, "log", log_info(state_))>>
                ELSE <<>>
    /\ op' = Operation("evaluate", nullptr, x, TRUE, "", state_'.current.y)
    /\ history' = Append(history, Solution(x, state_'.current.y))
    /\ UNCHANGED <<config, logger_>>

\* Problem::operator()(x), input accepted
operator_call_valid(x) ==
    /\ Alive
    /\ check_input(x)
    /\ state_.evaluations < MaxEvals
    /\ state_' = pipeline(x)
    /\ calls' = IF logger_ # nullptr
                THEN <<LoggerCall(logger_, "log", log_info(state_'))>>
                ELSE <<>>
    /\ op' = Operation("evaluate", nullptr, x, TRUE, "", state_'.current.y)
    /\ history' = Append(history, Solution(x, state_'.current.y))
    /\ UNCHANGED <<config, logger_>>

\* Problem::operator()(x)
operator_call(x) == operator_call_invalid(x) \/ operator_call_valid(x)

\* ------------------------------------------------ the factories
\* the concrete problem types and the class template each derives from
Types == {"LeadingOnesRuggedness1", "OneMax", "Sphere"}
BaseOf(t) == IF t = "Sphere" THEN "RealProblem" ELSE "IntegerProblem"

\* every type registering with the factory of Real
RegistryOf_shared(base) == "Real"

\* AutomaticProblemRegistration<ProblemType, Parent>: the factory of the base
RegistryOf(base) == IF base = "RealProblem" THEN "Real" ELSE "Integer"

\* a constructor that hands its two arguments over in the wrong order
construct_exchanged(t, id, instance, n_variables) ==
    [type |-> t,
     meta_data |-> [problem_id |-> id, instance |-> n_variables,
                    n_variables |-> instance, name |-> t],
     objective |-> Solution(Filled(n_variables, 1), <<(n_variables \div 2) + 1>>)]

\* LeadingOnesRuggedness1(instance, n_variables), for an even n_variables
construct(t, id, instance, n_variables) ==
    [type |-> t,
     meta_data |-> [problem_id |-> id, instance |-> instance,
                    n_variables |-> n_variables, name |-> t],
     objective |-> Solution(Filled(n_variables, 1), <<(n_variables \div 2) + 1>>)]

NoProblem == [type |-> NoType]

\* the declared id of a type
IdOf(t) == IF t = "LeadingOnesRuggedness1" THEN 15 ELSE 1

\* the arguments a caller passes to create
Instances == {1, 2}
Dimensions == {4}

problem_vars == <<problem_type, variables_hook, objectives_hook, function_,
                  meta_data_, objective_, constraint_, state_, logger_, calls,
                  op, history, observer>>

\* register(id, name, constructor of t): refused when the id or the name
\* already creates another type
register(t, id, name) ==
    LET f == RegistryOf(BaseOf(t))
        taken == \/ registry_[f].ids[id] \notin {NoType, t}
                 \/ registry_[f].names[name] \notin {NoType, t}
    IN  /\ registry_' = IF taken THEN registry_
                        ELSE [registry_ EXCEPT ![f].ids[id] = t,
                                               ![f].names[name] = t]
        /\ factory_op' = [name |-> "register", family |-> f, type |-> t,
                          id |-> id, key |-> name, instance |-> 0, n_variables |-> 0,
                          error |-> IF taken THEN "already registered" ELSE "",
                          result |-> NoProblem]
        /\ UNCHANGED <<problem_vars, comparison>>

\* the outcome of a lookup that found type t
created(t, instance, n_variables) ==
    IF t = NoType THEN NoProblem ELSE construct(t, IdOf(t), instance, n_variables)

\* create(id, instance, n_variables)
create_by_id(f, id, instance, n_variables) ==
    LET t == registry_[f].ids[id] IN
    /\ factory_op' = [name |-> "create", family |-> f, type |-> t,
                      id |-> id, key |-> "", instance |-> instance,
                      n_variables |-> n_variables,
                      error |-> IF t = NoType THEN "unknown problem" ELSE "",
                      result |-> created(t, instance, n_variables)]
    /\ UNCHANGED <<problem_vars, registry_, comparison>>

\* create(name, instance, n_variables)
create_by_name(f, name, instance, n_variables) ==
    LET t == registry_[f].names[name] IN
    /\ factory_op' = [name |-> "create", family |-> f, type |-> t,
                      id |-> 0, key |-> name, instance |-> instance,
                      n_variables |-> n_variables,
                      error |-> IF t = NoType THEN "unknown problem" ELSE "",
                      result |-> created(t, instance, n_variables)]
    /\ UNCHANGED <<problem_vars, registry_, comparison>>

RegistryInit ==
    /\ Init
    /\ problem_type = "WrappedProblem<int>"
    /\ function_ = "ones"
    /\ meta_data_.n_objectives = 1
    /\ meta_data_.optimization_type = "Minimization"

RegistryNext ==
    \/ \E t \in Types, id \in Ids, name \in Names : register(t, id, name)
    \/ \E f \in Families, id \in Ids, i \in Instances, n \in Dimensions :
           create_by_id(f, id, i, n)
    \/ \E f \in Families, name \in Names, i \in Instances, n \in Dimensions :
           create_by_name(f, name, i, n)

RegistrySpec == RegistryInit /\ [][RegistryNext]_vars

\* ------------------------------------------------ compare_objectives, called alone
\* the objective values compared: those of the unit test, others and the
\* values that are not finite
CompareValues == {0 - 2, 0, 2, 4, 5, NegInfinity, Infinity, NaN}

compare(a, b, optimization_type) ==
    /\ comparison' = [name |-> "compare", a |-> a, b |-> b,
                      optimization_type |-> optimization_type,
                      result |-> compare_objectives(a, b, optimization_type)]
    /\ UNCHANGED <<problem_vars, registry_, factory_op>>

CompareInit == RegistryInit

CompareNext ==
    \E a \in CompareValues, b \in CompareValues,
       optimization_type \in {"Minimization", "Maximization"} :
        compare(a, b, optimization_type)

CompareSpec == CompareInit /\ [][CompareNext]_vars

Next ==
    \/ reset /\ UNCHANGED observer
    \/ \E l \in Loggers : attach_logger(l) /\ UNCHANGED observer
    \/ detach_logger /\ UNCHANGED observer
    \/ \E x \in Inputs(ValueType(problem_type)) :
           operator_call(x) /\ UNCHANGED observer

Spec == Init /\ [][Next]_vars

\* ------------------------------------------------ the problem seen from its loggers
\* a logger receiving call c when the problem has counted n evaluations:
\* track_problem opens a span, log is counted within it, flush closes it; a log
\* or a flush outside a span is an error of the protocol
Deliver(o, c, n) ==
    LET s == o[c.logger] IN
    CASE c.method = "track_problem" ->
             [o EXCEPT ![c.logger] = [phase |-> "tracked", logs |-> 0, base |-> n]]
      [] c.method = "log" ->
             IF s.phase = "tracked"
             THEN [o EXCEPT ![c.logger].logs = @ + 1]
             ELSE [o EXCEPT ![c.logger].phase = "error"]
      [] OTHER ->
             IF s.phase = "tracked"
             THEN [o EXCEPT ![c.logger].phase = "flushed"]
             ELSE [o EXCEPT ![c.logger].phase = "error"]

RECURSIVE DeliverAll(_, _, _)
DeliverAll(o, cs, n) ==
    IF cs = <<>> THEN o ELSE DeliverAll(Deliver(o, Head(cs), n), Tail(cs), n)

\* the loggers receive the calls of the operation
Observe == observer' = DeliverAll(observer, calls', state_'.evaluations)

\* one RealProblem, with the hooks left as Problem defines them
LoggerInit ==
    /\ Init
    /\ problem_type = "RealProblem"
    /\ variables_hook = "identity"
    /\ objectives_hook = "identity"
    /\ function_ = "ones"
    /\ meta_data_.n_objectives = 1
    /\ meta_data_.optimization_type = "Minimization"
    /\ constraint_ = Constraint(TRUE, NVars)

LoggerNext ==
    \/ reset /\ Observe
    \/ \E l \in Loggers : attach_logger(l) /\ Observe
    \/ detach_logger /\ Observe
    \/ \E x \in Inputs(ValueType(problem_type)) : operator_call(x) /\ Observe

LoggerSpec == LoggerInit /\ [][LoggerNext]_vars

\* ===================================================================
\* Properties
\* ===================================================================
direction == meta_data_.optimization_type

EvaluatedValid == op.name = "evaluate" /\ op.valid
EvaluatedInvalid == op.name = "evaluate" /\ ~op.valid

\* the evaluation of history that no other one beats and that no earlier one ties
FirstBest(h) ==
    CHOOSE i \in 1..Len(h) :
        /\ \A j \in 1..Len(h) : ~compare_objectives(h[j].y[1], h[i].y[1], direction)
        /\ \A j \in 1..(i - 1) : h[j].y[1] # h[i].y[1]

C1_BestIsFirstBest ==
    IF history = <<>>
    THEN state_.current_best.y[1] = meta_data_.initial_objective_value
    ELSE /\ \E i \in 1..Len(history) :
              /\ \A j \in 1..Len(history) :
                     ~compare_objectives(history[j].y[1], history[i].y[1], direction)
              /\ \A j \in 1..(i - 1) : history[j].y[1] # history[i].y[1]
         /\ state_.current_best = history[FirstBest(history)]

C1_NeverWorse ==
    op'.name # "reset" =>
        ~compare_objectives(state_.current_best.y[1], state_'.current_best.y[1], direction)

\* C1: current_best.y[0] is the best current.y[0] of the valid evaluations since
\* the last reset (the initial objective value if there were none), the best
\* snapshot is the one of the first evaluation that produced that value, and
\* no operation other than reset makes current_best.y[0] worse.
C1_MonotonicImprovement == []C1_BestIsFirstBest /\ [][C1_NeverWorse]_vars

\* a later evaluation tied with the best one and the earlier snapshot was kept
C1_Witness ==
    /\ EvaluatedValid
    /\ Len(history) = 2
    /\ history[1].y[1] = history[2].y[1]
    /\ history[1].x # history[2].x
    /\ state_.current_best.x = history[1].x
    /\ state_.current.x = history[2].x

\* the inputs that fail validation
FailsValidation(x) ==
    \/ Len(x) = 0
    \/ Len(x) # meta_data_.n_variables
    \/ /\ problem_type = "RealProblem"
       /\ \E i \in 1..Len(x) : x[i] \in NonFinite

C3_SoftFailureReturnsNaN ==
    (op.name = "evaluate" /\ FailsValidation(op.x)) =>
        /\ Len(op.ret) = meta_data_.n_objectives
        /\ \A j \in 1..Len(op.ret) : IsNaN(op.ret[j])

\* C4: every record handed to logger.log holds, in this order, the evaluation
\* count, current_best_internal.y[0], current_internal.y[0], current_best.y[0],
\* (current.x, current.y) and (objective.x, objective.y) of the State after
\* the evaluation.
C4_LogRecord ==
    \A i \in 1..Len(calls) :
        calls[i].method = "log" =>
            calls[i].arg = <<state_.evaluations,
                             state_.current_best_internal.y[1],
                             state_.current_internal.y[1],
                             state_.current_best.y[1],
                             <<state_.current.x, state_.current.y>>,
                             <<objective_.x, objective_.y>> >>

CallsOf(method) == SelectSeq(calls, LAMBDA c : c.method = method)

\* C5: track_problem(meta_data) is called exactly once by attach_logger (on the
\* logger passed) and by reset while a logger is attached (on that logger);
\* reset without a logger, detach_logger and evaluations never call it.
C5_TrackProblem ==
    /\ op.name = "attach_logger" =>
           CallsOf("track_problem") = <<LoggerCall(op.logger, "track_problem", meta_data_)>>
    /\ op.name = "reset" =>
           CallsOf("track_problem") =
               IF op.before.logger # nullptr
               THEN <<LoggerCall(op.before.logger, "track_problem", meta_data_)>>
               ELSE <<>>
    /\ op.name \in {"construct", "detach_logger", "evaluate"} =>
           CallsOf("track_problem") = <<>>

\* a reset with logger B attached tracked the problem on B
C5_Witness ==
    /\ op.name = "reset"
    /\ op.before.logger = "B"
    /\ op.before.evaluations = 1
    /\ calls = <<LoggerCall("B", "track_problem", meta_data_)>>

\* C6: attach_logger(B) makes B the attached logger and calls only B, also when
\* A was attached; every other operation calls only the logger that was
\* attached when it started and attaches no other logger.
C6_AtMostOneLogger ==
    /\ op.name = "attach_logger" =>
           /\ logger_ = op.logger
           /\ \A i \in 1..Len(calls) : calls[i].logger = op.logger
    /\ op.name # "attach_logger" =>
           /\ \A i \in 1..Len(calls) : calls[i].logger = op.before.logger
           /\ logger_ \in {op.before.logger, nullptr}

\* B was attached while A was, and A was not called
C6_Witness ==
    /\ op.name = "attach_logger"
    /\ op.logger = "B"
    /\ op.before.logger = "A"
    /\ logger_ = "B"
    /\ Len(calls) = 1
    /\ calls[1].logger = "B"

C7_Detached ==
    /\ op.name = "detach_logger" =>
           /\ logger_ = nullptr
           /\ calls = IF op.before.logger # nullptr
                      THEN <<LoggerCall(op.before.logger, "flush", NoArg)>>
                      ELSE <<>>
    /\ (op.name \in {"evaluate", "reset"} /\ op.before.logger = nullptr) =>
           /\ logger_ = nullptr
           /\ calls = <<>>

C7_DetachNothing ==
    (op'.name = "detach_logger" /\ logger_ = nullptr) =>
        /\ calls' = <<>>
        /\ UNCHANGED <<config, state_, logger_, history>>

\* C7: detach_logger with a logger attached calls flush on it exactly once and
\* leaves none attached, after which evaluations and resets call no logger;
\* detach_logger with none attached calls nothing and changes nothing.
C7_DetachLogger == []C7_Detached /\ [][C7_DetachNothing]_vars

\* logger A was flushed once by a detach_logger that followed an evaluation
C7_Witness ==
    /\ op.name = "detach_logger"
    /\ op.before.logger = "A"
    /\ calls = <<LoggerCall("A", "flush", NoArg)>>
    /\ logger_ = nullptr
    /\ state_.evaluations = 1

\* the State the constructor leaves
Sentinel == IF ValueType(problem_type) = "double" THEN NaN ELSE 0

Constructed ==
    LET s == [x |-> [i \in 1..meta_data_.n_variables |-> Sentinel],
              y |-> [j \in 1..meta_data_.n_objectives |->
                        meta_data_.initial_objective_value]]
    IN  [evaluations |-> 0, current |-> s, current_internal |-> s,
         current_best |-> s, current_best_internal |-> s]

\* C8: after reset, State equals its post-construction value, whatever was
\* evaluated before (also right after construction and after another reset).
C8_ResetRestoresState ==
    /\ op.name \in {"construct", "reset"} => state_ = Constructed
    /\ (op.name \in {"attach_logger", "detach_logger"} /\ history = <<>>) =>
           state_ = Constructed

\* a reset wiped a State that held two evaluations, with no logger attached
C8_Witness ==
    /\ op.name = "reset"
    /\ op.before.evaluations = 2
    /\ op.before.logger = nullptr
    /\ state_ = Constructed
    /\ state_.evaluations = 0

C9_Counted == state_.evaluations = Len(history)

C9_Counting ==
    /\ (op'.name = "evaluate" /\ ~FailsValidation(op'.x)) =>
           state_'.evaluations = state_.evaluations + 1
    /\ (op'.name = "evaluate" /\ FailsValidation(op'.x)) =>
           state_'.evaluations = state_.evaluations
    /\ op'.name \in {"attach_logger", "detach_logger"} =>
           state_'.evaluations = state_.evaluations
    /\ op'.name = "reset" => state_'.evaluations = 0
    /\ state_'.evaluations < state_.evaluations => op'.name = "reset"

\* C9: evaluations is the number of evaluation calls that passed validation
\* since construction or the last reset: a valid evaluation adds 1, a
\* soft-failing one, attach_logger and detach_logger add nothing, and only
\* reset lowers it, to 0.
C9_EvaluationsCounter == []C9_Counted /\ [][C9_Counting]_vars

\* a wrong-length vector was rejected after two counted evaluations
C9_Witness ==
    /\ op.name = "evaluate"
    /\ op.warning = "The dimension of solution is incorrect."
    /\ op.before.evaluations = 2
    /\ state_.evaluations = 2
    /\ Len(history) = 2

\* C10: the first evaluation of a freshly constructed WrappedProblem around f,
\* on a valid x, returns f(x) and leaves evaluations = 1, current.x = x and
\* current.y = f(x).
C10_WrappedRoundTrip ==
    (/\ IsWrapped(problem_type)
     /\ op.name = "evaluate"
     /\ op.before.constructed
     /\ ~FailsValidation(op.x)) =>
        /\ op.ret = Apply(function_, meta_data_.n_objectives, op.x)
        /\ state_.evaluations = 1
        /\ state_.current.x = op.x
        /\ state_.current.y = Apply(function_, meta_data_.n_objectives, op.x)

\* a fresh WrappedProblem was evaluated on a point whose value is not 0
C10_Witness ==
    /\ IsWrapped(problem_type)
    /\ op.name = "evaluate"
    /\ op.before.constructed
    /\ op.x = Unit(NVars, 2)
    /\ op.ret[1] = Scalar(function_, op.x)
    /\ op.ret[1] > 0
    /\ state_.evaluations = 1

\* the objective values a double can hold
Doubles == (0 - 3)..3 \cup {NegInfinity, Infinity}

\* C11 as claimed: every component of the default target objective_.y is the
\* worst value of the direction (+infinity for Minimization, -infinity for
\* Maximization): no objective value is strictly worse than it.
C11_DefaultTargetIsWorst ==
    \A j \in 1..Len(objective_.y) :
        /\ objective_.y[j] = (IF direction = "Minimization" THEN Infinity ELSE NegInfinity)
        /\ \A v \in Doubles : ~compare_objectives(objective_.y[j], v, direction)

\* C11 as amended: every component of the default target objective_.y is the
\* best value of the direction (-infinity for Minimization, +infinity for
\* Maximization): no objective value is strictly better than it.
C11_DefaultTargetIsBest ==
    /\ Len(objective_.y) = meta_data_.n_objectives
    /\ \A j \in 1..Len(objective_.y) :
        /\ objective_.y[j] = (IF direction = "Minimization" THEN NegInfinity ELSE Infinity)
        /\ \A v \in Doubles : ~compare_objectives(v, objective_.y[j], direction)

\* a Minimization problem was constructed and its default target is -infinity
C11_Witness ==
    /\ op.name = "construct"
    /\ direction = "Minimization"
    /\ objective_.y[1] = NegInfinity
    /\ compare_objectives(objective_.y[1], 0, direction)

\* C12: right after construction current_best.y[0] and current.y[0] equal
\* initial_objective_value, +infinity under Minimization and -infinity under
\* Maximization, and the first valid evaluation with a finite objective value
\* becomes the best-so-far.
C12_InitialBest ==
    /\ meta_data_.initial_objective_value =
           (IF direction = "Minimization" THEN Infinity ELSE NegInfinity)
    /\ op.name = "construct" =>
           /\ state_.current_best.y[1] = meta_data_.initial_objective_value
           /\ state_.current.y[1] = meta_data_.initial_objective_value
    /\ (/\ op.name = "evaluate"
        /\ ~FailsValidation(op.x)
        /\ op.before.constructed
        /\ IsFinite(state_.current.y[1])) =>
           /\ state_.current_best = state_.current
           /\ state_.current_best.x = op.x
           /\ state_.current_best_internal = state_.current_internal

\* the first evaluation of a Maximization problem replaced the initial best
C12_Witness ==
    /\ op.name = "evaluate"
    /\ op.before.constructed
    /\ direction = "Maximization"
    /\ IsFinite(state_.current.y[1])
    /\ state_.current_best.y[1] = state_.current.y[1]
    /\ state_.current_best.y[1] # meta_data_.initial_objective_value

ConstructionFailed == op.name = "construct" /\ ~op.valid

C16_MismatchFails ==
    (constraint_.sized /\ constraint_.size # meta_data_.n_variables) =>
        /\ ConstructionFailed
        /\ op.warning # ""
        /\ calls = <<>>
        /\ logger_ = nullptr

\* C16: constructing a Problem with a Constraint whose declared size differs
\* from n_variables fails: the constructor's error reaches the caller and no
\* evaluation, reset, attach_logger or detach_logger ever happens on it.
C16_ConstructionFailsHard == []C16_MismatchFails /\ [][~ConstructionFailed]_vars

\* a constructor was given a constraint of NVars + 1 bounds and threw
C16_Witness ==
    /\ ConstructionFailed
    /\ constraint_ = Constraint(TRUE, NVars + 1)
    /\ op.warning = "Bound dimension is wrong"

\* the key of the last lookup names a registered type
LookedUp(f) ==
    IF factory_op.key = "" THEN registry_[f].ids[factory_op.id]
    ELSE registry_[f].names[factory_op.key]

\* C13: a lookup by a registered id or name with (instance, n_variables)
\* returns a problem of the type registered under that key whose
\* meta_data.instance and meta_data.n_variables are the arguments; a lookup of
\* an unregistered key fails with an error and returns no problem.
C13_FactoryLookup ==
    factory_op.name = "create" =>
        IF LookedUp(factory_op.family) # NoType
        THEN /\ factory_op.error = ""
             /\ factory_op.result.type = LookedUp(factory_op.family)
             /\ factory_op.result.meta_data.instance = factory_op.instance
             /\ factory_op.result.meta_data.n_variables = factory_op.n_variables
        ELSE /\ factory_op.error = "unknown problem"
             /\ factory_op.result = NoProblem

\* create("LeadingOnesRuggedness1", 1, 4) returned such a problem
C13_Witness ==
    /\ factory_op.name = "create"
    /\ factory_op.key = "LeadingOnesRuggedness1"
    /\ factory_op.instance = 1
    /\ factory_op.n_variables = 4
    /\ factory_op.result.type = "LeadingOnesRuggedness1"
    /\ factory_op.result.meta_data.instance = 1
    /\ factory_op.result.meta_data.n_variables = 4

\* the family a type belongs to
FamilyOf(t) == IF t = "Sphere" THEN "Real" ELSE "Integer"

C14_Registering ==
    factory_op'.name = "register" =>
        LET f == FamilyOf(factory_op'.type)
            t == factory_op'.type
            clash == \/ registry_[f].ids[factory_op'.id] \notin {NoType, t}
                     \/ registry_[f].names[factory_op'.key] \notin {NoType, t}
        IN  /\ factory_op'.family = f
            /\ \A g \in Families \ {f} : registry_'[g] = registry_[g]
            /\ clash => (factory_op'.error # "" /\ registry_' = registry_)
            /\ ~clash =>
                   /\ factory_op'.error = ""
                   /\ registry_'[f].ids[factory_op'.id] = t
                   /\ registry_'[f].names[factory_op'.key] = t
            /\ (/\ registry_[f].ids[factory_op'.id] = t
                /\ registry_[f].names[factory_op'.key] = t) =>
                   (factory_op'.error = "" /\ registry_' = registry_)

C14_FirstStays ==
    \A f \in Families :
        /\ \A i \in Ids :
               registry_[f].ids[i] # NoType => registry_'[f].ids[i] = registry_[f].ids[i]
        /\ \A n \in Names :
               registry_[f].names[n] # NoType =>
                   registry_'[f].names[n] = registry_[f].names[n]

\* C14: within the registry of one family, registering a key that already
\* creates another type is reported and changes nothing, so a key keeps the
\* type registered first; registering a type again under its own keys changes
\* nothing and is no error; the other family's registry is never touched.
C14_DuplicateRegistration == [][C14_Registering /\ C14_FirstStays]_vars

\* OneMax was refused id 15, which LeadingOnesRuggedness1 holds, while Sphere
\* holds a key of the Real family
C14_Witness ==
    /\ factory_op.name = "register"
    /\ factory_op.type = "OneMax"
    /\ factory_op.id = 15
    /\ factory_op.error # ""
    /\ registry_["Integer"].ids[15] = "LeadingOnesRuggedness1"
    /\ registry_["Real"].ids[15] = "Sphere"

\* a > b on doubles
Greater(a, b) == a # NaN /\ b # NaN /\ a > b

\* C15: compare_objectives(a, b, Maximization) holds exactly when a > b and
\* compare_objectives(a, b, Minimization) exactly when a < b; comparing under
\* Minimization is comparing the exchanged values under Maximization; no value
\* is better than itself.
C15_CompareObjectives ==
    comparison.name = "compare" =>
        LET a == comparison.a
            b == comparison.b
        IN  /\ comparison.result =
                   (IF comparison.optimization_type = "Maximization"
                    THEN Greater(a, b) ELSE Greater(b, a))
            /\ compare_objectives(a, b, "Minimization")
                   = compare_objectives(b, a, "Maximization")
            /\ a = b => ~comparison.result

\* 2 was compared with 2 under Maximization and found not better
C15_Witness ==
    /\ comparison.name = "compare"
    /\ comparison.a = 2
    /\ comparison.b = 2
    /\ comparison.optimization_type = "Maximization"
    /\ ~comparison.result

\* the internal objective vector of the evaluation of the public point x
InternalOf(x) == evaluate(transform_variables(x))

\* C17 as claimed: in every reachable state the two best snapshots are images
\* of each other under the hooks, and current_best_internal.y[0] is the best
\* internal objective value of the evaluations since the last reset.
C17_LockstepBestInternal ==
    /\ state_.current_best_internal.x = transform_variables(state_.current_best.x)
    /\ state_.current_best.y = transform_objectives(state_.current_best_internal.y)
    /\ \A i \in 1..Len(history) :
           ~compare_objectives(InternalOf(history[i].x)[1],
                               state_.current_best_internal.y[1], direction)

\* C17 as amended: before the first valid evaluation since construction or
\* reset both best snapshots are the initial Solution; afterwards both stem
\* from the one evaluation whose public y[0] is best (the first on ties):
\* current_best is its public point, current_best_internal.x is
\* transform_variables(current_best.x), current_best_internal.y is its
\* internal objective vector and current_best.y is transform_objectives of it.
C17_SameEvaluation ==
    IF history = <<>>
    THEN /\ state_.current_best = Constructed.current_best
         /\ state_.current_best_internal = state_.current_best
    ELSE LET b == history[FirstBest(history)] IN
         /\ state_.current_best = b
         /\ state_.current_best_internal.x = transform_variables(b.x)
         /\ state_.current_best_internal.y = InternalOf(b.x)
         /\ state_.current_best.y = transform_objectives(state_.current_best_internal.y)

\* with both hooks overridden, the best snapshot of two evaluations holds an
\* internal value that another evaluation of the two beats
C17_Witness ==
    /\ EvaluatedValid
    /\ variables_hook = "flip"
    /\ objectives_hook = "negate"
    /\ Len(history) = 2
    /\ state_.current_best_internal.x = transform_variables(state_.current_best.x)
    /\ state_.current_best_internal.x # state_.current_best.x
    /\ \E i \in 1..Len(history) :
           compare_objectives(InternalOf(history[i].x)[1],
                              state_.current_best_internal.y[1], direction)

\* C18: a valid evaluation of x leaves current.x = x, current_internal.x =
\* transform_variables(x), current_internal.y = evaluate(transform_variables(x))
\* and current.y = transform_objectives(evaluate(transform_variables(x))), each
\* hook applied once, and returns current.y.
C18_EvaluationPipeline ==
    (op.name = "evaluate" /\ ~FailsValidation(op.x)) =>
        /\ state_.current.x = op.x
        /\ state_.current_internal.x = transform_variables(op.x)
        /\ state_.current_internal.y = evaluate(transform_variables(op.x))
        /\ state_.current.y =
               transform_objectives(evaluate(transform_variables(op.x)))
        /\ op.ret = state_.current.y

\* an evaluation whose two hooks both changed what they were given
C18_Witness ==
    /\ EvaluatedValid
    /\ variables_hook = "flip"
    /\ objectives_hook = "square"
    /\ op.x = Unit(NVars, 1)
    /\ state_.current.x = op.x
    /\ state_.current_internal.x # op.x
    /\ state_.current.y # state_.current_internal.y
    /\ op.ret = state_.current.y

C19_Logged ==
    /\ (op.name = "evaluate" /\ ~FailsValidation(op.x) /\ op.before.logger # nullptr) =>
           /\ Len(calls) = 1
           /\ calls[1].logger = op.before.logger
           /\ calls[1].method = "log"
           /\ calls[1].arg[1] = state_.evaluations
           /\ calls[1].arg[1] = op.before.evaluations + 1
           /\ calls[1].arg[5] = <<state_.current.x, state_.current.y>>
           /\ calls[1].arg[5] = <<op.x, op.ret>>
    /\ (op.name = "evaluate" /\ FailsValidation(op.x)) => calls = <<>>
    /\ op.name # "evaluate" => CallsOf("log") = <<>>

C19_LogsCounted ==
    logger_ # nullptr =>
        /\ observer[logger_].phase = "tracked"
        /\ observer[logger_].logs = state_.evaluations - observer[logger_].base

\* C19: with a logger attached, a valid evaluation calls log on it exactly
\* once, with the record of the State as updated by this evaluation and the
\* value the call returns; an evaluation that fails validation calls nothing;
\* so the logs the attached logger received since its last track_problem are
\* as many as the evaluations counted since then.
C19_LogPerEvaluation == C19_Logged /\ C19_LogsCounted

\* A, attached after one evaluation, was logged once and then saw a rejected input
C19_Witness ==
    /\ EvaluatedInvalid
    /\ logger_ = "A"
    /\ calls = <<>>
    /\ observer["A"] = [phase |-> "tracked", logs |-> 1, base |-> 1]
    /\ state_.evaluations = 2

C20_Protocol ==
    /\ \A l \in Loggers : observer[l].phase # "error"
    /\ \A l \in Loggers : observer[l].phase \in {"idle", "flushed"} => logger_ # l
    /\ \A i \in 1..Len(calls) :
           /\ calls[i].method \in {"log", "flush"} => calls[i].logger = op.before.logger
           /\ calls[i].method = "flush" => observer[calls[i].logger].phase = "flushed"

C20_ResetKeepsLogger ==
    op'.name = "reset" =>
        /\ logger_' = logger_
        /\ \A l \in Loggers :
               observer'[l].phase = observer[l].phase

\* C20: each logger receives track_problem first, then logs and further
\* track_problems, then at most one flush, after which only track_problem can
\* follow: no log and no flush reaches a logger outside such a span, in any
\* interleaving of the four operations; and reset leaves the logger attached.
C20_LoggerProtocol == []C20_Protocol /\ [][C20_ResetKeepsLogger]_vars

\* A was tracked, logged, tracked again by a reset and flushed by detach_logger,
\* while B, replaced by A, was tracked and never flushed
C20_Witness ==
    /\ op.name = "detach_logger"
    /\ op.before.logger = "A"
    /\ calls = <<LoggerCall("A", "flush", NoArg)>>
    /\ observer["A"] = [phase |-> "flushed", logs |-> 1, base |-> 0]
    /\ observer["B"].phase = "tracked"
    /\ state_.evaluations = 1

====
